---- MODULE Spec2Model ----
(***************************************************************************)
(* Model of the blog migration tool: the dedup ledger (db_handler.py), the *)
(* session cache (temp_storage.py), the transform stage (formatter.py,     *)
(* download.py), the publisher (uploader.py) and the orchestrator with its *)
(* one-shot renderer recovery (main.py).                                   *)
(***************************************************************************)
EXTENDS Integers, Sequences, FiniteSets, TLC

(* ------------------------------ bounds -------------------------------- *)
\* longest discovery result scrape_homepage returns in the model
MaxPosts == 2
\* number of top-level invocations (python main.py) in one behaviour
MaxInvocations == 2
\* number of direct ledger API calls in one behaviour of LedgerSpec
MaxLedgerOps == 5

(* ------------------------------ values -------------------------------- *)
None == "None"
URLs == {"https://src/f/a", "https://src/f/b"}
LedgerURLs == URLs \cup {"https://src/f/c"}

\* a raw date string, by the pieces strptime reads from it
DateGood  == [fmt |-> "%B %d, %Y", month |-> "March",    day |-> 27, year |-> 2025]
DateSlash == [fmt |-> "%d/%m/%Y",  month |-> "45",       day |-> 13, year |-> 2025]
DateDay   == [fmt |-> "%B %d, %Y", month |-> "February", day |-> 30, year |-> 2025]
RawDates == {DateGood, DateSlash}
\* the raw dates format_post_date is tried on alone: month tokens in several
\* spellings, days around the ends of the months, a leap and a common year
DateMonths == {"January", "February", "March", "December", "march", "Mar"}
DateDays == {0, 1, 29, 30, 31, 32}
DateYears == {2024, 2025}
DateInputs ==
  {DateGood, DateSlash, DateDay} \cup
  {[fmt |-> "%B %d, %Y", month |-> mo, day |-> dy, year |-> yr] :
     mo \in DateMonths, dy \in DateDays, yr \in DateYears}

\* an image src attribute, by its leading pieces: scheme, "//", rest
SrcHttps   == <<"https:", "//", "img1.wsimg.com/x.jpg">>
SrcProtRel == <<"//", "img1.wsimg.com/x.jpg">>
SrcPath    == <<"/isteam/x.jpg">>
\* an img tag that has no src attribute
SrcMissing == << >>
\* content_html, by the src attributes of its img tags in document order
Contents == {<< >>, <<SrcProtRel, SrcPath>>, <<SrcPath, SrcHttps>>,
             <<SrcHttps, SrcMissing>>}

\* the draws of random.randint the main specification explores
RandHours   == {6, 23}
RandMinutes == {0}
RandSeconds == {59}
\* all the draws random.randint(6, 23), randint(0, 59) and randint(0, 59) can give
HourDraws   == 6..23
MinuteDraws == 0..59
SecondDraws == 0..59

\* what the remote fetch / decode / optimise of the featured image can do
FetchOutcomes == {"ok", "status", "neterr", "decode", "optim"}
\* what a remote write call can do: 201, another status, a network error
RemoteOutcomes == {"201", "500", "neterr"}
\* the id the remote API gives an uploaded media item
MediaId == "id:885"
\* scrape_post_content's failure sentinel, and no payload built yet
NoPost == [url |-> None]
NoPayload == [title |-> None]
\* no raw date given, and format_post_date not called yet
NoDate == [fmt |-> None, month |-> None, day |-> 0, year |-> 0]
NoTimestamp == [raised |-> "not called"]
\* no index page given, and scrape_homepage not called yet
NoPage == [status |-> None, has_button |-> FALSE, has_container |-> FALSE,
           cards |-> << >>]
NotScraped == [raised |-> "not called"]
\* no direct ledger call made yet
NoCall == [n |-> 0, op |-> None, url |-> None, before |-> << >>, raised |-> None,
           wiped |-> << >>]

WebDriverException == "WebDriverException"

\* what the renderer meets on a post page: status says whether the driver
\* starts and the page loads; has_title, has_date and has_content say whether
\* the heading, date and content locators match; date and content_html are
\* what the date and content elements hold
PostPage(status, t, hd, hc, d, c) ==
  [status |-> status, has_title |-> t, has_date |-> hd, has_content |-> hc,
   date |-> d, content_html |-> c]
CompletePages == {PostPage("ok", TRUE, TRUE, TRUE, d, c) : d \in RawDates, c \in Contents}
LocatorMissingPages == {PostPage("ok", FALSE, TRUE, TRUE, DateGood, << >>),
                        PostPage("ok", TRUE, FALSE, TRUE, DateGood, << >>),
                        PostPage("ok", TRUE, TRUE, FALSE, DateGood, << >>)}
BrokenPages == {PostPage(st, FALSE, FALSE, FALSE, DateGood, << >>) :
                  st \in {"start_error", "load_error"}}
PostPages == CompletePages \cup LocatorMissingPages \cup BrokenPages

(* --------------------------- pure functions --------------------------- *)
SeqMax(a, b) == IF a >= b THEN a ELSE b

RECURSIVE MaxRowId(_)
MaxRowId(rows) ==
  IF rows = << >> THEN 0 ELSE SeqMax(rows[1].id, MaxRowId(Tail(rows)))

\* (mutant) the lookup reads only the first row of the table
is_post_migrated_first_row(rows, url) == rows # << >> /\ rows[1].url = url

\* db_handler.is_post_migrated: SELECT 1 FROM posts WHERE url = ?
is_post_migrated(rows, url) == \E k \in 1..Len(rows) : rows[k].url = url

\* the rowid an AUTOINCREMENT table gives the next inserted row
NextRowId(rows, sq) == SeqMax(sq, MaxRowId(rows)) + 1

\* (mutant) a plain INSERT that always adds a row
mark_post_as_migrated_plain_insert(rows, sq, url) ==
  Append(rows, [id |-> NextRowId(rows, sq), url |-> url,
                featured_image |-> None, wp_post_id |-> None])

\* db_handler.mark_post_as_migrated: INSERT OR IGNORE INTO posts (url)
mark_post_as_migrated(rows, sq, url) ==
  IF is_post_migrated(rows, url)
    THEN rows
    ELSE Append(rows, [id |-> NextRowId(rows, sq), url |-> url,
                       featured_image |-> None, wp_post_id |-> None])

\* sqlite_sequence after that INSERT OR IGNORE; whether an ignored insert
\* advances it depends on the SQLite build (bump is 0 or 1)
mark_sequence(rows, sq, url, bump) ==
  IF is_post_migrated(rows, url) THEN sq + bump ELSE NextRowId(rows, sq)

\* (mutant) the table is dropped and created again
initialize_db_recreating(exists, rows) == [exists |-> TRUE, rows |-> << >>]

\* db_handler.initialize_db: CREATE TABLE IF NOT EXISTS posts keeps the rows
\* of a table that exists
initialize_db(exists, rows) == [exists |-> TRUE, rows |-> rows]

\* (mutant) the rows are deleted, the sqlite_sequence entry is left alone
delete_migrated_posts_keeps_sequence(rows, sq) == [rows |-> << >>, seq |-> sq]

\* db_handler.delete_migrated_posts: DELETE FROM posts, then
\* DELETE FROM sqlite_sequence WHERE name='posts'
delete_migrated_posts(rows, sq) == [rows |-> << >>, seq |-> 0]

LedgerUrls(rows) == {rows[k].url : k \in 1..Len(rows)}

MonthNames == <<"January", "February", "March", "April", "May", "June", "July",
                "August", "September", "October", "November", "December">>
MonthNamesLower == <<"january", "february", "march", "april", "may", "june", "july",
                     "august", "september", "october", "november", "december">>
MonthNamesUpper == <<"JANUARY", "FEBRUARY", "MARCH", "APRIL", "MAY", "JUNE", "JULY",
                     "AUGUST", "SEPTEMBER", "OCTOBER", "NOVEMBER", "DECEMBER">>
\* %B matches the full month name whatever its case (three spellings here)
IsMonth(m, name) ==
  name \in {MonthNames[m], MonthNamesLower[m], MonthNamesUpper[m]}
MonthNumber(name) == CHOOSE m \in 1..12 : IsMonth(m, name)
IsLeap(y) == (y % 4 = 0 /\ y % 100 # 0) \/ y % 400 = 0
DaysInMonth(m, y) ==
  IF m = 2 THEN (IF IsLeap(y) THEN 29 ELSE 28)
  ELSE IF m \in {4, 6, 9, 11} THEN 30 ELSE 31

\* datetime.strptime(date_str, "%B %d, %Y") succeeds
DateParses(d) ==
  /\ d.fmt = "%B %d, %Y"
  /\ \E m \in 1..12 : IsMonth(m, d.month)
  /\ d.day >= 1
  /\ d.day <= DaysInMonth(MonthNumber(d.month), d.year)

\* (mutant) strftime with the 12-hour %I in the place of %H
format_post_date_12_hour(d, hour, minute, second) ==
  IF DateParses(d)
    THEN [raised |-> None,
          Y |-> d.year, m |-> MonthNumber(d.month), d |-> d.day,
          H |-> IF hour % 12 = 0 THEN 12 ELSE hour % 12, M |-> minute, S |-> second]
    ELSE [raised |-> "ValueError"]

\* formatter.format_post_date: the "%Y-%m-%dT%H:%M:%S" timestamp, by its
\* fields, or the ValueError raised
format_post_date(d, hour, minute, second) ==
  IF DateParses(d)
    THEN [raised |-> None,
          Y |-> d.year, m |-> MonthNumber(d.month), d |-> d.day,
          H |-> hour, M |-> minute, S |-> second]
    ELSE [raised |-> "ValueError"]

\* download.is_valid_url: re.match(r'^https?://', url)
is_valid_url(src) ==
  Len(src) >= 2 /\ src[1] \in {"http:", "https:"} /\ src[2] = "//"

\* download.clean_and_validate_url: the cleaned url, or the ValueError raised
clean_and_validate_url(src) ==
  LET url == IF Len(src) >= 1 /\ src[1] = "//" THEN <<"https:">> \o src ELSE src
  IN  IF is_valid_url(url) THEN [raised |-> None, url |-> url]
      ELSE [raised |-> "ValueError"]

\* download.adjust_featured_media: the saved path, or None on any failure
\* (invalid url, non-200, network error, decode error, optimiser missing)
adjust_featured_media(src, fetch) ==
  IF clean_and_validate_url(src).raised # None THEN None
  ELSE IF fetch = "ok" THEN "images/featured_media.jpg" ELSE None

\* download.process_image_links: only the first url is processed
process_image_links(img_list, fetch) ==
  IF img_list = << >> THEN ""
  ELSE adjust_featured_media(img_list[1], fetch)

\* (mutant) a status other than 201 is raised, as response.raise_for_status() does
upload_featured_image_raising(image_path, remote) ==
  IF image_path = "" THEN [res |-> None, called |-> FALSE]
  ELSE IF image_path = None THEN [res |-> "TypeError", called |-> FALSE]
  ELSE IF remote = "201" THEN [res |-> MediaId, called |-> TRUE]
  ELSE [res |-> "RequestException", called |-> TRUE]

\* (mutant) the image file is not opened before the upload
upload_featured_image_unopened(image_path, remote) ==
  IF remote = "201" THEN [res |-> MediaId, called |-> TRUE]
  ELSE IF remote = "neterr" THEN [res |-> "RequestException", called |-> TRUE]
  ELSE [res |-> None, called |-> TRUE]

\* uploader.upload_featured_image: a media id, None, or the exception raised
upload_featured_image(image_path, remote) ==
  IF image_path = "" THEN [res |-> None, called |-> FALSE]
  ELSE IF image_path = None THEN [res |-> "TypeError", called |-> FALSE]
  ELSE IF remote = "201" THEN [res |-> MediaId, called |-> TRUE]
  ELSE IF remote = "neterr" THEN [res |-> "RequestException", called |-> TRUE]
  ELSE [res |-> None, called |-> TRUE]

\* uploader.upload_post: True on 201, False on another status, or the exception
upload_post(remote) ==
  IF remote = "201" THEN "True"
  ELSE IF remote = "neterr" THEN "RequestException" ELSE "False"

\* the first of the three required locators that does not match, or None
FirstMissingLocator(page) ==
  IF ~page.has_title THEN "title"
  ELSE IF ~page.has_date THEN "date"
  ELSE IF ~page.has_content THEN "content" ELSE None

\* (mutant) the locators' failures are passed over and a dict is returned
scrape_post_content_partial(post_url, page) ==
  IF page.status = "start_error"
    THEN [raised |-> WebDriverException, res |-> NoPost, calls |-> << >>,
          acquired |-> FALSE, quit |-> FALSE]
  ELSE IF page.status = "load_error"
    THEN [raised |-> WebDriverException, res |-> NoPost, calls |-> << >>,
          acquired |-> TRUE, quit |-> FALSE]
  ELSE [raised |-> None,
        res |-> [url |-> post_url, date |-> page.date,
                 content_html |-> page.content_html],
        calls |-> <<[op |-> "find_element", res |-> FirstMissingLocator(page)]>>,
        acquired |-> TRUE, quit |-> TRUE]

\* scraper.scrape_post_content: the dict returned, None (NoPost) when a
\* required locator is missing, or the exception raised; acquired and quit
\* say whether a driver was started and whether driver.quit() was reached
scrape_post_content(post_url, page) ==
  IF page.status = "start_error"
    THEN [raised |-> WebDriverException, res |-> NoPost, calls |-> << >>,
          acquired |-> FALSE, quit |-> FALSE]
  ELSE IF page.status = "load_error"
    THEN [raised |-> WebDriverException, res |-> NoPost, calls |-> << >>,
          acquired |-> TRUE, quit |-> FALSE]
  ELSE IF FirstMissingLocator(page) # None
    THEN [raised |-> None, res |-> NoPost,
          calls |-> <<[op |-> "find_element", res |-> FirstMissingLocator(page)]>>,
          acquired |-> TRUE, quit |-> TRUE]
  ELSE [raised |-> None,
        res |-> [url |-> post_url, date |-> page.date,
                 content_html |-> page.content_html],
        calls |-> <<[op |-> "find_element", res |-> None]>>,
        acquired |-> TRUE, quit |-> TRUE]

(* ------------------------------- state -------------------------------- *)
VARIABLES
  tableExists, \* migrated_posts.db holds the posts table
  ledger,      \* rows of the posts table, in insertion order
  seq,         \* sqlite_sequence value for posts (0: no row)
  tempFile,    \* temp.db exists on disk
  tempRows,    \* rows of temp.db's posts table
  inv,         \* top-level invocations started so far
  run,         \* run_migration calls started in this invocation
  upgrades,    \* run_update_chromedriver calls in this invocation
  pc,          \* position of the top-level script
  posts,       \* the discovery result of the current run
  idx,         \* position of the for loop in posts
  full_post,   \* the post extracted for posts[idx], or None
  formatted,   \* the payload built for posts[idx], or None
  err,         \* the exception that ended the last run, or None
  log,         \* calls completed in the current loop iteration, in order
  live,        \* drivers this process started and has not quit
  runCalls,    \* names of the functions called so far in the current run
  pubOk,       \* urls upload_post returned True for in the current run
  pubFailed,   \* urls upload_post returned False for in the current run
  ledgerAtStart, \* urls the ledger held when the current run began
  pubCount,    \* per url: successes of upload_post since the last reset
  markFailed,  \* a mark_post_as_migrated call failed since the last reset
  retry,       \* urls the previous run failed to publish and left unmarked
  dbCall,      \* the last direct ledger API call (LedgerSpec)
  date_str,    \* the raw date given to format_post_date (DateSpec)
  timestamp,   \* what format_post_date returned or raised for it (DateSpec)
  home_page,   \* the index page given to scrape_homepage (DiscoverySpec)
  discovered   \* what scrape_homepage returned or raised for it (DiscoverySpec)

vars == <<tableExists, ledger, seq, tempFile, tempRows, inv, run, upgrades, pc,
          posts, idx, full_post, formatted, err, log, live, runCalls, pubOk, pubFailed,
          ledgerAtStart, pubCount, markFailed, retry, dbCall, date_str, timestamp,
          home_page, discovered>>

dateVars == <<date_str, timestamp>>
homeVars == <<home_page, discovered>>
dbVars   == <<tableExists, ledger, seq>>
tempVars == <<tempFile, tempRows>>
runVars  == <<inv, run, upgrades, pc, posts, idx, full_post, formatted, err, log, live>>
ghostVars == <<pubOk, pubFailed, ledgerAtStart, pubCount, markFailed, retry>>

RECURSIVE SeqsUpTo(_, _)
SeqsUpTo(S, n) ==
  IF n = 0 THEN {<< >>}
  ELSE LET shorter == SeqsUpTo(S, n - 1)
       IN  shorter \cup {Append(s, x) : s \in shorter, x \in S}

PostLists == SeqsUpTo(URLs, MaxPosts)

(* ----------------------------- the index page ------------------------- *)
\* a GridCell of the index page: whether it has an <a> and an <h4>, the href
\* the driver reports (an absolute url, or None) and the stripped title text
Card(a, link, h4, title) ==
  [has_a |-> a, link |-> link, has_h4 |-> h4, title |-> title]
GoodCards == {Card(TRUE, u, TRUE, "title") : u \in URLs}
MalformedCards == {Card(FALSE, None, TRUE, "title"),
                   Card(TRUE, None, TRUE, "title"),
                   Card(TRUE, "https://src/f/a", TRUE, "")}
\* cards on one page: room for one more card than posts
MaxCards == MaxPosts + 1

\* the post a card gives, if it gives one: find_element for <a> or <h4> raises
\* on a card without it (caught per card), and `if title and link` drops a
\* card with an empty title or no href
CardParses(card) ==
  card.has_a /\ card.has_h4 /\ card.title # "" /\ card.link # None
CardPosts(cards) ==
  LET kept == SelectSeq(cards, CardParses)
  IN  [k \in 1..Len(kept) |-> kept[k].link]

\* scraper.scrape_homepage: the driver's start and the page load are outside
\* the try; inside it click_show_more_button comes first, so a page without
\* the button, like one without the container, ends in the outer except with
\* posts still empty; driver.quit() is on the one way to the return
scrape_homepage(page) ==
  IF page.status = "start_error"
    THEN [raised |-> WebDriverException, posts |-> << >>,
          acquired |-> FALSE, quit |-> FALSE]
  ELSE IF page.status = "load_error"
    THEN [raised |-> WebDriverException, posts |-> << >>,
          acquired |-> TRUE, quit |-> FALSE]
  ELSE IF ~page.has_button \/ ~page.has_container
    THEN [raised |-> None, posts |-> << >>, acquired |-> TRUE, quit |-> TRUE]
  ELSE [raised |-> None, posts |-> CardPosts(page.cards),
        acquired |-> TRUE, quit |-> TRUE]

\* what the renderer meets on the index page: status as for a post page,
\* whether the Show More button and the card container are there, the cards
HomePage(status, button, container, cards) ==
  [status |-> status, has_button |-> button, has_container |-> container,
   cards |-> cards]
HomePages ==
  {HomePage(st, FALSE, FALSE, << >>) : st \in {"start_error", "load_error"}}
  \cup {HomePage("ok", b, FALSE, << >>) : b \in BOOLEAN}
  \cup {HomePage("ok", b, TRUE, cards) :
          b \in BOOLEAN,
          cards \in {c \in SeqsUpTo(GoodCards \cup MalformedCards, MaxCards) :
                       CardPosts(c) \in PostLists}}

Ev(op, i, res) == [op |-> op, i |-> i, res |-> res]

\* no invocation made yet: no temp.db, no run, no call
NoInvocation ==
  /\ tempFile = FALSE
  /\ tempRows = << >>
  /\ inv = 0
  /\ run = 0
  /\ upgrades = 0
  /\ pc = "idle"
  /\ posts = << >>
  /\ idx = 0
  /\ full_post = NoPost
  /\ formatted = NoPayload
  /\ err = None
  /\ log = << >>
  /\ live = 0
  /\ runCalls = {}
  /\ pubOk = {}
  /\ pubFailed = {}
  /\ ledgerAtStart = {}
  /\ pubCount = [u \in URLs |-> 0]
  /\ markFailed = FALSE
  /\ retry = {}
  /\ dbCall = NoCall

\* nothing has run yet: no table either
NothingRun ==
  /\ tableExists = FALSE
  /\ ledger = << >>
  /\ seq = 0
  /\ NoInvocation

Init ==
  /\ NothingRun
  /\ date_str = NoDate
  /\ timestamp = NoTimestamp
  /\ home_page = NoPage
  /\ discovered = NotScraped

(* --------------------------- the top-level script --------------------- *)
\* (mutant) every WebDriverException is answered by an upgrade and a restart
RaiseRetryingAlways(e) ==
  /\ err' = e
  /\ pc' = IF e = WebDriverException THEN "upgrade" ELSE "fatal"
  /\ full_post' = NoPost
  /\ formatted' = NoPayload

\* (mutant) a bare except: any exception of the first run is answered by an
\* upgrade and a restart
RaiseRetryingAny(e) ==
  /\ err' = e
  /\ pc' = IF run = 1 THEN "upgrade" ELSE "fatal"
  /\ full_post' = NoPost
  /\ formatted' = NoPayload

\* an exception leaves run_migration: main.py's except clause takes a
\* WebDriverException of the first run_migration call, anything else and
\* anything in the second call ends the process
Raise(e) ==
  /\ err' = e
  /\ pc' = IF e = WebDriverException /\ run = 1 THEN "upgrade" ELSE "fatal"
  /\ full_post' = NoPost
  /\ formatted' = NoPayload

\* (mutant) the loop takes the same post again
NextPostAgain ==
  /\ idx' = idx
  /\ pc' = "check"
  /\ full_post' = NoPost
  /\ formatted' = NoPayload

\* the for loop goes on to the next post, or ends; the iteration's
\* full_post and formatted are dead from here on
NextPost ==
  /\ idx' = idx + 1
  /\ pc' = IF idx + 1 > Len(posts) THEN "cleanup" ELSE "check"
  /\ full_post' = NoPost
  /\ formatted' = NoPayload

Url == posts[idx]

Ops(l) == {l[k].op : k \in 1..Len(l)}

\* the calls a function made, as entries of the iteration's log
LogCalls(calls, i) ==
  [k \in 1..Len(calls) |->
     [op |-> calls[k].op, i |-> i, res |-> calls[k].res]]

\* python main.py
StartInvocation ==
  /\ pc \in {"idle", "done", "fatal"}
  /\ inv < MaxInvocations
  /\ inv' = inv + 1
  /\ run' = 1
  /\ upgrades' = 0
  /\ err' = None
  /\ pc' = "init"
  /\ posts' = << >>
  /\ idx' = 0
  /\ log' = << >>
  /\ live' = 0
  /\ UNCHANGED <<dbVars, tempVars, full_post, formatted, runCalls, ghostVars, dbCall, dateVars, homeVars>>

\* (mutant) a temp.db found at the start of a run is left in place
remove_temp_db_skipped(file, rows) == [file |-> file, rows |-> rows, removed |-> None]

\* run_migration, lines 29-31: if os.path.exists("temp.db"): os.remove("temp.db")
remove_temp_db(file, rows) ==
  [file |-> FALSE, rows |-> << >>,
   removed |-> IF ~file THEN None
               ELSE IF rows = << >> THEN "empty temp.db" ELSE "temp.db with rows"]

\* run_migration, lines 29-34: drop a stale temp.db, initialize_db()
RunInit ==
  /\ pc = "init"
  /\ tempFile' = remove_temp_db(tempFile, tempRows).file
  /\ tempRows' = remove_temp_db(tempFile, tempRows).rows
  /\ tableExists' = initialize_db(tableExists, ledger).exists
  /\ ledger' = initialize_db(tableExists, ledger).rows
  /\ retry' = pubFailed \ LedgerUrls(ledger)
  /\ ledgerAtStart' = LedgerUrls(ledger)
  /\ pubOk' = {}
  /\ pubFailed' = {}
  /\ runCalls' = {}
  /\ posts' = << >>
  /\ idx' = 0
  /\ log' = <<Ev("os.remove", 0, remove_temp_db(tempFile, tempRows).removed)>>
  /\ pc' = "discover"
  /\ UNCHANGED <<seq, inv, run, upgrades, full_post, formatted, err,
                 live, pubCount, markFailed, dbCall, dateVars, homeVars>>

\* (mutant) no early return: an empty discovery falls through the loop
AfterDiscoveryNoReturn(ps) == IF ps = << >> THEN "cleanup" ELSE "check"

\* run_migration, lines 38-40: an empty discovery returns at once
AfterDiscovery(ps) == IF ps = << >> THEN "done" ELSE "check"

\* run_migration, lines 37-43: scrape_homepage(), return when it is empty,
\* else TempStorage(); scrape_homepage starts its driver and loads the page
\* outside its try, and quits the driver on its one way to the return
Discover ==
  /\ pc = "discover"
  /\ \E page \in HomePages :
       LET out == scrape_homepage(page)
       IN  /\ live' = IF out.acquired /\ ~out.quit THEN live + 1 ELSE live
           /\ IF out.raised # None
                THEN /\ Raise(out.raised)
                     /\ log' = <<Ev("scrape_homepage", 0, out.raised)>>
                     /\ UNCHANGED <<posts, idx, tempVars>>
                ELSE /\ posts' = out.posts
                     /\ log' = <<Ev("scrape_homepage", 0, "posts")>>
                     /\ pc' = AfterDiscovery(out.posts)
                     /\ IF pc' = "done"
                          THEN UNCHANGED <<idx, tempVars, err, full_post, formatted>>
                          ELSE /\ tempFile' = TRUE
                               /\ tempRows' = IF tempFile THEN tempRows ELSE << >>
                               /\ idx' = 1
                               /\ UNCHANGED <<err, full_post, formatted>>
  /\ runCalls' = runCalls \cup Ops(log')
  /\ UNCHANGED <<dbVars, inv, run, upgrades, ghostVars, dbCall, dateVars, homeVars>>

\* run_migration, lines 46-48: skip a post the ledger holds
CheckPost ==
  /\ pc = "check"
  /\ IF is_post_migrated(ledger, Url)
       THEN /\ log' = <<Ev("is_post_migrated", idx, "True")>>
            /\ NextPost
       ELSE /\ log' = <<Ev("is_post_migrated", idx, "False")>>
            /\ pc' = "extract"
            /\ UNCHANGED <<idx, full_post, formatted>>
  /\ runCalls' = runCalls \cup Ops(log')
  /\ UNCHANGED <<dbVars, tempVars, inv, run, upgrades, posts, err, live, ghostVars,
                 dbCall, dateVars, homeVars>>

\* run_migration, lines 51-54: scrape_post_content(url); the driver's start and
\* page load are outside its try, a locator failure gives None
Extract ==
  /\ pc = "extract"
  /\ \E page \in PostPages :
       LET out == scrape_post_content(Url, page)
       IN  /\ live' = IF out.acquired /\ ~out.quit THEN live + 1 ELSE live
           /\ IF out.raised # None
                THEN /\ Raise(out.raised)
                     /\ log' = log \o LogCalls(out.calls, idx)
                                  \o <<Ev("scrape_post_content", idx, out.raised)>>
                     /\ UNCHANGED idx
                ELSE IF out.res = NoPost
                  THEN /\ log' = log \o LogCalls(out.calls, idx)
                                    \o <<Ev("scrape_post_content", idx, None)>>
                       /\ NextPost
                       /\ UNCHANGED err
                  ELSE /\ full_post' = out.res
                       /\ log' = log \o LogCalls(out.calls, idx)
                                    \o <<Ev("scrape_post_content", idx, "post")>>
                       /\ pc' = "cache"
                       /\ UNCHANGED <<idx, err, formatted>>
  /\ runCalls' = runCalls \cup Ops(log')
  /\ UNCHANGED <<dbVars, tempVars, inv, run, upgrades, posts, ghostVars, dbCall, dateVars, homeVars>>

\* (mutant) INSERT OR REPLACE: a duplicate url takes the place of the old row
save_post_or_replace(rows, post) ==
  SelectSeq(rows, LAMBDA r : r.url # post.url)
    \o <<[url |-> post.url, content_html |-> post.content_html]>>

\* TempStorage.save_post: INSERT, a duplicate url is warned about and kept out
save_post(rows, post) ==
  IF \E k \in 1..Len(rows) : rows[k].url = post.url
    THEN rows
    ELSE Append(rows, [url |-> post.url, content_html |-> post.content_html])

\* run_migration, line 56
Cache ==
  /\ pc = "cache"
  /\ tempRows' = save_post(tempRows, full_post)
  /\ log' = Append(log, Ev("save_post", idx,
                IF tempRows' = tempRows THEN "IntegrityError" ELSE "saved"))
  /\ pc' = "transform"
  /\ runCalls' = runCalls \cup Ops(log')
  /\ UNCHANGED <<live, dbVars, tempFile, inv, run, upgrades, posts, idx, full_post,
                 formatted, err, ghostVars, dbCall, dateVars, homeVars>>

\* the requests.post to WP_MEDIA_URL upload_featured_image makes, if it makes it
MediaRequest(media, remote) ==
  IF media.called THEN <<[op |-> "requests.post WP_MEDIA_URL", res |-> remote]>>
  ELSE << >>

\* (mutant) the date is formatted when the payload is assembled, after the media
format_post_content_date_last(post, hour, minute, second, fetch, remote) ==
  LET date  == format_post_date(post.date, hour, minute, second)
      imgs  == post.content_html
      path  == process_image_links(imgs, fetch)
      media == upload_featured_image(path, remote)
      e2    == <<[op |-> "process_image_links", res |-> path]>>
                 \o MediaRequest(media, remote)
                 \o <<[op |-> "upload_featured_image", res |-> media.res,
                       remote |-> media.called]>>
      e3    == e2 \o <<[op |-> "format_post_date", res |-> date.raised]>>
  IN  IF \E k \in 1..Len(imgs) : imgs[k] = SrcMissing
        THEN [raised |-> "KeyError", calls |-> << >>]
      ELSE IF media.res \in {"TypeError", "RequestException"}
        THEN [raised |-> media.res, calls |-> e2]
      ELSE IF date.raised # None
        THEN [raised |-> date.raised, calls |-> e3]
      ELSE [raised |-> None, calls |-> e3,
            payload |-> [date |-> date, title |-> post.url,
                         content |-> imgs, featured_media |-> media.res]]

\* formatter.format_post_content, lines 29-71: the calls it makes in order,
\* and the payload it returns or the exception that leaves it
format_post_content(post, hour, minute, second, fetch, remote) ==
  LET date  == format_post_date(post.date, hour, minute, second)
      imgs  == post.content_html
      path  == process_image_links(imgs, fetch)
      media == upload_featured_image(path, remote)
      e1    == <<[op |-> "format_post_date", res |-> date.raised]>>
      e2    == e1 \o <<[op |-> "process_image_links", res |-> path]>>
      e3    == e2 \o MediaRequest(media, remote)
                  \o <<[op |-> "upload_featured_image", res |-> media.res,
                        remote |-> media.called]>>
  IN  IF date.raised # None
        THEN [raised |-> date.raised, calls |-> e1]
      ELSE IF \E k \in 1..Len(imgs) : imgs[k] = SrcMissing
        THEN [raised |-> "KeyError", calls |-> e1]
      ELSE IF media.res \in {"TypeError", "RequestException"}
        THEN [raised |-> media.res, calls |-> e3]
      ELSE [raised |-> None, calls |-> e3,
            payload |-> [date |-> date, title |-> post.url,
                         content |-> imgs, featured_media |-> media.res]]

\* run_migration, line 59
Transform ==
  /\ pc = "transform"
  /\ \E h \in RandHours, m \in RandMinutes, sc \in RandSeconds,
        fetch \in FetchOutcomes, remote \in RemoteOutcomes :
       LET out == format_post_content(full_post, h, m, sc, fetch, remote)
       IN  IF out.raised # None
             THEN /\ Raise(out.raised)
                  /\ log' = log \o LogCalls(out.calls, idx)
                               \o <<Ev("format_post_content", idx, out.raised)>>
             ELSE /\ formatted' = out.payload
                  /\ log' = log \o LogCalls(out.calls, idx)
                               \o <<Ev("format_post_content", idx, "payload")>>
                  /\ pc' = "publish"
                  /\ UNCHANGED <<err, full_post>>
  /\ runCalls' = runCalls \cup Ops(log')
  /\ UNCHANGED <<live, dbVars, tempVars, inv, run, upgrades, posts, idx, ghostVars, dbCall, dateVars, homeVars>>

\* (mutant) the ledger is written whatever upload_post returned
RecordsAfterAnyResult(result) == result \in {"True", "False"}

\* run_migration, line 62: the ledger is written only when upload_post is true
RecordsAfter(result) == result = "True"

\* run_migration, lines 62, 65-66: upload_post(formatted)
Publish ==
  /\ pc = "publish"
  /\ \E remote \in RemoteOutcomes :
       LET result == upload_post(remote)
       IN  /\ log' = Append(log, Ev("upload_post", idx, result))
           /\ pubCount' = IF result = "True"
                            THEN [pubCount EXCEPT ![Url] = @ + 1] ELSE pubCount
           /\ pubOk' = IF result = "True" THEN pubOk \cup {Url} ELSE pubOk
           /\ pubFailed' = IF result = "False" THEN pubFailed \cup {Url} ELSE pubFailed
           /\ IF result = "RequestException"
                THEN Raise(result) /\ idx' = idx
                ELSE IF RecordsAfter(result)
                  THEN pc' = "record" /\ UNCHANGED <<idx, err, full_post, formatted>>
                  ELSE NextPost /\ UNCHANGED err
  /\ runCalls' = runCalls \cup Ops(log')
  /\ UNCHANGED <<live, dbVars, tempVars, inv, run, upgrades, posts, ledgerAtStart,
                 markFailed, retry, dbCall, dateVars, homeVars>>

\* (mutant) a storage error inside mark_post_as_migrated is caught there
mark_post_as_migrated_swallowing(storage, rows, sq, url) ==
  IF storage = "error" THEN [raised |-> None, rows |-> rows]
  ELSE [raised |-> None, rows |-> mark_post_as_migrated(rows, sq, url)]

\* db_handler.mark_post_as_migrated with the storage layer working or failing:
\* connect, execute and commit are in no try, a failed call commits nothing
mark_post_as_migrated_on(storage, rows, sq, url) ==
  IF storage = "error" THEN [raised |-> "sqlite3.Error", rows |-> rows]
  ELSE [raised |-> None, rows |-> mark_post_as_migrated(rows, sq, url)]

\* run_migration, lines 63-64: mark_post_as_migrated(url); a storage error
\* leaves the function and the run
Record ==
  /\ pc = "record"
  /\ \E storage \in {"ok", "error"} :
       LET out == mark_post_as_migrated_on(storage, ledger, seq, Url)
       IN  /\ ledger' = out.rows
           /\ markFailed' = (markFailed \/ storage = "error")
           /\ log' = Append(log, Ev("mark_post_as_migrated", idx, out.raised))
           /\ IF storage = "error"
                THEN seq' = seq
                ELSE \E bump \in {0, 1} : seq' = mark_sequence(ledger, seq, Url, bump)
           /\ IF out.raised # None
                THEN Raise(out.raised) /\ idx' = idx
                ELSE NextPost /\ UNCHANGED err
  /\ runCalls' = runCalls \cup Ops(log')
  /\ UNCHANGED <<live, tableExists, tempVars, inv, run, upgrades, posts, pubOk, pubFailed,
                 ledgerAtStart, pubCount, retry, dbCall, dateVars, homeVars>>

\* run_migration, lines 69-71: close the session cache and remove temp.db
Cleanup ==
  /\ pc = "cleanup"
  /\ tempFile' = FALSE
  /\ tempRows' = << >>
  /\ pc' = "done"
  /\ UNCHANGED <<live, dbVars, inv, run, upgrades, posts, idx, full_post, formatted, err,
                 log, runCalls, ghostVars, dbCall, dateVars, homeVars>>

\* main.py, lines 77-81: run_update_chromedriver(), then run_migration() again;
\* the download it makes can raise, which ends the process
Upgrade ==
  /\ pc = "upgrade"
  /\ upgrades' = upgrades + 1
  /\ \/ /\ run' = run + 1
        /\ pc' = "init"
        /\ err' = None
     \/ /\ pc' = "fatal"
        /\ err' = "UpgradeError"
        /\ UNCHANGED run
  /\ UNCHANGED <<live, dbVars, tempVars, inv, posts, idx, full_post, formatted, log,
                 runCalls, ghostVars, dbCall, dateVars, homeVars>>

\* db_handler.delete_migrated_posts, run by hand between invocations
DeleteMigratedPosts ==
  /\ pc \in {"idle", "done", "fatal"}
  /\ tableExists
  /\ ledger' = delete_migrated_posts(ledger, seq).rows
  /\ seq' = delete_migrated_posts(ledger, seq).seq
  /\ pubCount' = [u \in URLs |-> 0]
  /\ markFailed' = FALSE
  /\ UNCHANGED <<tableExists, tempVars, runVars, runCalls, pubOk, pubFailed,
                 ledgerAtStart, retry, dbCall, dateVars, homeVars>>

Next ==
  \/ StartInvocation
  \/ RunInit
  \/ Discover
  \/ CheckPost
  \/ Extract
  \/ Cache
  \/ Transform
  \/ Publish
  \/ Record
  \/ Cleanup
  \/ Upgrade
  \/ DeleteMigratedPosts

Spec == Init /\ [][Next]_vars

\* the steps of a started invocation: each is one call that returns or
\* raises, so a started invocation keeps taking its next step
InvocationStep ==
  \/ RunInit
  \/ Discover
  \/ CheckPost
  \/ Extract
  \/ Cache
  \/ Transform
  \/ Publish
  \/ Record
  \/ Cleanup
  \/ Upgrade

\* the ledgers earlier invocations can have left: rows for distinct urls,
\* numbered in insertion order
StoredLedgers ==
  {[k \in 1..Len(us) |-> [id |-> k, url |-> us[k],
                          featured_image |-> None, wp_post_id |-> None]] :
     us \in {p \in PostLists : \A j, k \in 1..Len(p) : p[j] = p[k] => j = k}}

\* one invocation, started with any of those ledgers
TerminationInit ==
  /\ ledger \in StoredLedgers
  /\ tableExists = (ledger # << >>)
  /\ seq = Len(ledger)
  /\ NoInvocation
  /\ date_str = NoDate
  /\ timestamp = NoTimestamp
  /\ home_page = NoPage
  /\ discovered = NotScraped

StartFirstInvocation == inv = 0 /\ StartInvocation

TerminationNext ==
  \/ StartFirstInvocation
  \/ InvocationStep

TerminationSpec ==
  TerminationInit /\ [][TerminationNext]_vars /\ WF_vars(InvocationStep)

(* ------------------- the ledger API, called directly ------------------ *)
\* the record of a direct call; wiped keeps the rows taken out by the last
\* delete_migrated_posts that took any
Call(op, url, raised) ==
  [n |-> dbCall.n + 1, op |-> op, url |-> url, before |-> ledger, raised |-> raised,
   wiped |-> IF op = "delete_migrated_posts" /\ raised = None /\ ledger # << >>
               THEN ledger ELSE dbCall.wiped]

\* db_handler.initialize_db: CREATE TABLE IF NOT EXISTS posts
CallInitializeDb ==
  /\ dbCall.n < MaxLedgerOps
  /\ tableExists' = initialize_db(tableExists, ledger).exists
  /\ ledger' = initialize_db(tableExists, ledger).rows
  /\ dbCall' = Call("initialize_db", None, None)
  /\ UNCHANGED <<seq, tempVars, runVars, runCalls, ghostVars, dateVars, homeVars>>

\* db_handler.mark_post_as_migrated(url); without the table the INSERT raises
CallMarkPostAsMigrated ==
  /\ dbCall.n < MaxLedgerOps
  /\ \E url \in LedgerURLs :
       IF tableExists
         THEN /\ ledger' = mark_post_as_migrated(ledger, seq, url)
              /\ \E bump \in {0, 1} : seq' = mark_sequence(ledger, seq, url, bump)
              /\ dbCall' = Call("mark_post_as_migrated", url, None)
         ELSE /\ dbCall' = Call("mark_post_as_migrated", url, "sqlite3.OperationalError")
              /\ UNCHANGED <<ledger, seq>>
  /\ UNCHANGED <<tableExists, tempVars, runVars, runCalls, ghostVars, dateVars, homeVars>>

\* db_handler.delete_migrated_posts: DELETE FROM posts, DELETE FROM sqlite_sequence
CallDeleteMigratedPosts ==
  /\ dbCall.n < MaxLedgerOps
  /\ IF tableExists
       THEN /\ ledger' = delete_migrated_posts(ledger, seq).rows
            /\ seq' = delete_migrated_posts(ledger, seq).seq
            /\ dbCall' = Call("delete_migrated_posts", None, None)
       ELSE /\ dbCall' = Call("delete_migrated_posts", None, "sqlite3.OperationalError")
            /\ UNCHANGED <<ledger, seq>>
  /\ UNCHANGED <<tableExists, tempVars, runVars, runCalls, ghostVars, dateVars, homeVars>>

LedgerNext ==
  \/ CallInitializeDb
  \/ CallMarkPostAsMigrated
  \/ CallDeleteMigratedPosts

LedgerSpec == Init /\ [][LedgerNext]_vars

(* ------------------- format_post_date, called alone ------------------- *)
DateInit ==
  /\ NothingRun
  /\ date_str \in DateInputs
  /\ timestamp = NoTimestamp
  /\ home_page = NoPage
  /\ discovered = NotScraped

\* format_post_date(date_str) with one draw of each randint
CallFormatPostDate ==
  /\ timestamp = NoTimestamp
  /\ \E hour \in HourDraws, minute \in MinuteDraws, second \in SecondDraws :
       timestamp' = format_post_date(date_str, hour, minute, second)
  /\ UNCHANGED <<dbVars, tempVars, runVars, runCalls, ghostVars, dbCall, date_str,
                 homeVars>>

DateNext == CallFormatPostDate

DateSpec == DateInit /\ [][DateNext]_vars

(* -------------------- scrape_homepage, called alone ------------------- *)
DiscoveryInit ==
  /\ NothingRun
  /\ date_str = NoDate
  /\ timestamp = NoTimestamp
  /\ home_page \in HomePages
  /\ discovered = NotScraped

\* scrape_homepage() on the page the renderer shows
CallScrapeHomepage ==
  /\ discovered = NotScraped
  /\ discovered' = scrape_homepage(home_page)
  /\ UNCHANGED <<dbVars, tempVars, runVars, runCalls, ghostVars, dbCall, dateVars,
                 home_page>>

DiscoveryNext == CallScrapeHomepage

DiscoverySpec == DiscoveryInit /\ [][DiscoveryNext]_vars

(* ------------------------------ claims -------------------------------- *)
Last(l) == l[Len(l)]
Range(f) == {f[k] : k \in DOMAIN f}
InLoop == pc \in {"check", "extract", "cache", "transform", "publish", "record"}
PostSteps == {"extract", "cache", "transform", "publish", "record"}
\* the current iteration decided to skip its post
Skipped == log # << >> /\ log[1] = Ev("is_post_migrated", log[1].i, "True")

\* C1 Skip invariant: a post whose url the ledger holds when the loop reaches
\* it gets no extraction, cache, transform, media or publish call (no step of
\* a post is ever taken for a url in the ledger, and after the skip decision
\* the iteration's only call is the ledger lookup), and the skip step leaves
\* the ledger and the session cache as they were.
C1_SkipInvariant ==
  /\ [](pc \in PostSteps => Url \notin LedgerUrls(ledger))
  /\ [](Skipped => /\ Len(log) = 1
                    /\ idx = log[1].i + 1
                    /\ pc \in {"check", "cleanup", "done"})
  /\ [][(pc = "check" /\ Url \in LedgerUrls(ledger))
          => /\ UNCHANGED <<ledger, seq, tempFile, tempRows, pubCount, pubOk, pubFailed>>
             /\ idx' = idx + 1
             /\ pc' \in {"check", "cleanup"}
             /\ runCalls' \ runCalls \subseteq {"is_post_migrated"}]_vars

\* a post was skipped while the session cache and the ledger held entries
C1_Witness ==
  /\ Skipped
  /\ tempRows # << >>
  /\ ledger # << >>

\* C2 Publish-gates-record: every url the ledger gained during a run had
\* upload_post return True in that run; a step adds a url to the ledger only
\* right after upload_post returned True for that post; and in an iteration
\* whose extraction, transform or publish failed the post's url is not in the
\* ledger.
C2_PublishGatesRecord ==
  /\ [](pc \notin {"idle", "done", "fatal"}
          => LedgerUrls(ledger) \ ledgerAtStart \subseteq pubOk)
  /\ [](\A k \in 1..Len(log) :
          \/ log[k].op = "scrape_post_content" /\ log[k].res # "post"
          \/ log[k].op = "format_post_content" /\ log[k].res # "payload"
          \/ log[k].op = "upload_post" /\ log[k].res # "True"
          => posts[log[k].i] \notin LedgerUrls(ledger))
  /\ [][LedgerUrls(ledger') \ LedgerUrls(ledger) # {}
          => /\ pc = "record"
             /\ Last(log) = Ev("upload_post", idx, "True")
             /\ LedgerUrls(ledger') = LedgerUrls(ledger) \cup {Url}]_vars

\* a url was recorded after its publish succeeded, in a run where another
\* publish had failed
C2_Witness ==
  /\ log # << >>
  /\ Last(log).op = "mark_post_as_migrated"
  /\ Last(log).res = None
  /\ LedgerUrls(ledger) # ledgerAtStart
  /\ pubFailed # {}

\* C3 No re-publishing: as long as no mark_post_as_migrated call has failed,
\* upload_post has returned True at most once for each url since the last
\* reset, across invocations, restarted runs and repeated urls.
C3_NoRepublish ==
  ~markFailed => \A u \in URLs : pubCount[u] <= 1

\* the restarted run of a second invocation ended, having met a url twice
\* that an earlier run published
C3_Witness ==
  /\ inv = 2
  /\ run = 2
  /\ pc = "done"
  /\ ~markFailed
  /\ Len(posts) = 2
  /\ posts[1] = posts[2]
  /\ posts[1] \in ledgerAtStart
  /\ pubCount[posts[1]] = 1

\* C4 One-shot recovery (amended): a WebDriverException leaving the first
\* run_migration call leads to the upgrade procedure and, when that procedure
\* returns, to one restart from INIT; run_migration starts at most twice and
\* the upgrade at most once per invocation; a WebDriverException in the
\* restarted run is fatal, and nothing is upgraded or restarted after that.
C4_OneShotRecovery ==
  /\ [](run <= 2 /\ upgrades <= 1)
  /\ [](run = 2 => upgrades = 1)
  /\ [](upgrades = 1 /\ run = 1 => pc \in {"fatal"} /\ err = "UpgradeError")
  /\ [][(pc \in {"discover", "extract"} /\ err' = WebDriverException)
          => pc' = (IF run = 1 THEN "upgrade" ELSE "fatal")]_vars
  /\ [][pc = "upgrade"
          => \/ pc' = "init" /\ run' = 2 /\ upgrades' = 1
             \/ pc' = "fatal" /\ err' = "UpgradeError" /\ run' = 1]_vars
  /\ [][run' # run => \/ pc = "upgrade" /\ pc' = "init" /\ inv' = inv
                      \/ inv' = inv + 1 /\ run' = 1]_vars
  /\ [][pc = "fatal" => UNCHANGED <<run, upgrades>> \/ inv' = inv + 1]_vars

\* a renderer failure in the restarted run ended the invocation
C4_Witness ==
  /\ run = 2
  /\ upgrades = 1
  /\ pc = "fatal"
  /\ err = WebDriverException
  /\ Last(log) = Ev("scrape_post_content", idx, WebDriverException)

\* C4 as stated: whenever the upgrade procedure was run (a WebDriverException
\* left the first run), the invocation restarted run_migration exactly once.
C4_RestartsAfterRendererFailure ==
  (upgrades = 1 /\ pc \in {"done", "fatal"}) => run = 2

\* the post's raw date does not parse, or its featured image url is invalid
InvalidFeaturedUrl(post) ==
  /\ post.content_html # << >>
  /\ \A k \in 1..Len(post.content_html) : post.content_html[k] # SrcMissing
  /\ clean_and_validate_url(post.content_html[1]).raised # None
MalformedInput(post) == ~DateParses(post.date) \/ InvalidFeaturedUrl(post)

\* C5 Malformed input never aborts the run: when the transform of a post
\* fails on a malformed date or an invalid image url, the loop skips the post
\* and goes on to the next one.
C5_MalformedInputSkipped ==
  [][(pc = "transform" /\ MalformedInput(full_post))
      => idx' = idx + 1 /\ pc' \in {"check", "cleanup"}]_vars

\* C6 Malformed date produces no record: the transform of a post whose raw
\* date does not parse calls format_post_date, which raises ValueError, and
\* nothing else: no media fetch, no media upload, no upload_post, and no
\* ledger change; afterwards the url is not in the ledger.
C6_MalformedDateNoRecord ==
  /\ [][(pc = "transform" /\ ~DateParses(full_post.date))
          => /\ log' = log \o <<Ev("format_post_date", idx, "ValueError"),
                                 Ev("format_post_content", idx, "ValueError")>>
             /\ err' = "ValueError"
             /\ pc' \notin {"publish", "record"}
             /\ UNCHANGED <<ledger, seq, pubCount, pubOk, pubFailed>>]_vars
  /\ [](log # << >> /\ Last(log) = Ev("format_post_content", idx, "ValueError")
          => /\ Url \notin LedgerUrls(ledger)
             /\ Ops(log) \cap {"process_image_links", "upload_featured_image",
                               "upload_post", "mark_post_as_migrated"} = {})

\* the transform of the second post failed on its date, after a first post
\* had been recorded
C6_Witness ==
  /\ log # << >>
  /\ Last(log) = Ev("format_post_content", 2, "ValueError")
  /\ ledger # << >>
  /\ pubOk # {}

\* C7 as stated: a url for which upload_post returned False in a run is not
\* in the ledger when that run ends.
C7_FailedPublishAbsentAtRunEnd ==
  pc \in {"done", "fatal", "upgrade"}
    => pubFailed \cap LedgerUrls(ledger) = {}

\* C7 Publish failure is retried next run (amended): a url for which
\* upload_post returned False and never True in a run is not in the ledger
\* during or at the end of that run, and the next run, on reaching that url
\* before publishing it, does not skip it and calls scrape_post_content next.
C7_RetriedNextRun ==
  /\ []((pubFailed \ pubOk) \cap LedgerUrls(ledger) = {})
  /\ [](retry \cap ledgerAtStart = {})
  /\ [][(pc = "check" /\ Url \in retry /\ Url \notin pubOk)
          => pc' = "extract" /\ idx' = idx]_vars
  /\ [][pc = "extract" => Last(log').op = "scrape_post_content"]_vars

\* the run after a failed publish extracted the same url again
C7_Witness ==
  /\ retry # {}
  /\ InLoop
  /\ Url \in retry
  /\ Last(log) = Ev("scrape_post_content", idx, "post")

\* C8 Empty discovery: when scrape_homepage returns no post the run is done
\* at once, without an error, with no session cache created and no ledger
\* change; the run's only call is the discovery itself.
C8_EmptyDiscovery ==
  /\ [][(pc = "discover" /\ posts' = << >> /\ err' = None)
          => /\ pc' = "done"
             /\ tempFile' = FALSE
             /\ UNCHANGED <<ledger, seq, pubCount>>]_vars
  /\ [][(pc \in {"init", "discover"}) => UNCHANGED <<ledger, seq>>]_vars
  /\ [](pc = "done" /\ posts = << >>
          => runCalls = {"scrape_homepage"} /\ pubOk = {} /\ err = None)

\* a run over a non-empty ledger ended on an empty discovery
C8_Witness ==
  /\ pc = "done"
  /\ posts = << >>
  /\ Last(log) = Ev("scrape_homepage", 0, "posts")
  /\ ledger # << >>

\* every discovered url was in the ledger when the current run began
AllMigrated == posts # << >> /\ Range(posts) \subseteq ledgerAtStart

\* C9 Top-level idempotence: a run whose discovery finds only urls that the
\* ledger already holds makes no call but the discovery and the ledger
\* lookups, leaves the ledger as it was, and ends without an error.
C9_Idempotence ==
  /\ [](AllMigrated
          => /\ runCalls = {"scrape_homepage", "is_post_migrated"}
                  \/ runCalls = {"scrape_homepage"}
             /\ pubOk = {} /\ pubFailed = {}
             /\ pc \in {"check", "cleanup", "done"}
             /\ err = None)
  /\ [][AllMigrated /\ pc \in {"check", "cleanup"}
          => UNCHANGED <<ledger, seq>>]_vars
  /\ [](AllMigrated /\ pc = "done"
          => runCalls = {"scrape_homepage", "is_post_migrated"} /\ ~tempFile)

\* the second invocation ended cleanly over urls the first one published
C9_Witness ==
  /\ inv = 2
  /\ pc = "done"
  /\ AllMigrated
  /\ Range(posts) = URLs
  /\ LedgerUrls(ledger) = URLs
  /\ \A u \in URLs : pubCount[u] = 1

\* C10 Ledger mark idempotence: after mark_post_as_migrated(u) on an
\* initialised ledger no error was raised, u is found by is_post_migrated,
\* the ledger holds exactly one record for u, and every record it held before
\* the call is unchanged (a second mark of u changes no record at all).
C10_MarkIdempotent ==
  (dbCall.op = "mark_post_as_migrated" /\ tableExists)
    => /\ dbCall.raised = None
       /\ is_post_migrated(ledger, dbCall.url)
       /\ Cardinality({k \in 1..Len(ledger) : ledger[k].url = dbCall.url}) = 1
       /\ IF dbCall.url \in LedgerUrls(dbCall.before)
            THEN ledger = dbCall.before
            ELSE /\ Len(ledger) = Len(dbCall.before) + 1
                 /\ SubSeq(ledger, 1, Len(dbCall.before)) = dbCall.before

\* a url was marked a second time while the ledger held another record too
C10_Witness ==
  /\ dbCall.op = "mark_post_as_migrated"
  /\ dbCall.raised = None
  /\ dbCall.url \in LedgerUrls(dbCall.before)
  /\ Len(ledger) = 2

\* C11 Ledger reset: right after delete_migrated_posts, is_post_migrated is
\* false for every url that was in the ledger before it; and the next
\* mark_post_as_migrated after a reset (whatever number of rows had been
\* inserted before, and whatever initialize_db calls lie between) leaves the
\* table with exactly one row, for its url, with id 1.
C11_ResetRestartsIds ==
  /\ [](dbCall.op = "delete_migrated_posts" /\ dbCall.raised = None
          => \A u \in LedgerUrls(dbCall.before) : ~is_post_migrated(ledger, u))
  /\ [][(/\ dbCall.wiped # << >>
          /\ ledger = << >>
          /\ dbCall'.op = "mark_post_as_migrated"
          /\ dbCall'.raised = None)
          => /\ Len(ledger') = 1
             /\ ledger'[1].id = 1
             /\ ledger'[1].url = dbCall'.url]_vars

\* a url was marked right after a reset that had removed two rows, and the
\* new row is the table's only one
C11_Witness ==
  /\ dbCall.op = "mark_post_as_migrated"
  /\ dbCall.before = << >>
  /\ Len(dbCall.wiped) >= 2
  /\ Len(ledger) = 1
  /\ ledger[1].id = 1

\* C12 Extraction failure is local: when a required locator (heading, date or
\* content) does not match, scrape_post_content returns None and no partial
\* post; that step writes nothing to the session cache or the ledger,
\* publishes nothing, makes no call after scrape_post_content in the
\* iteration, raises nothing, and moves the loop on to the next post (or to
\* the end of the loop).
C12_LocatorFailureSkipsPost ==
  /\ [][(/\ pc = "extract"
          /\ \E k \in 1..Len(log') :
               log'[k].op = "find_element" /\ log'[k].res # None)
          => /\ Last(log') = Ev("scrape_post_content", idx, None)
             /\ full_post' = NoPost
             /\ UNCHANGED <<tempFile, tempRows, ledger, seq, pubCount, pubOk,
                            pubFailed, err, live>>
             /\ runCalls' \ runCalls \subseteq {"find_element", "scrape_post_content"}
             /\ idx' = idx + 1
             /\ pc' = IF idx < Len(posts) THEN "check" ELSE "cleanup"]_vars
  /\ [](\A k \in 1..Len(log) :
          log[k].op = "scrape_post_content" /\ log[k].res = None
            => k = Len(log) /\ idx = log[k].i + 1 /\ pc \in {"check", "cleanup", "done"})

\* the date locator failed on the first of two posts, with entries in the
\* ledger, and the loop stands at the second post
C12_Witness ==
  /\ Len(log) >= 2
  /\ Last(log) = Ev("scrape_post_content", 1, None)
  /\ log[Len(log) - 1] = Ev("find_element", 1, "date")
  /\ ledger # << >>
  /\ pc = "check"
  /\ idx = 2

\* C13 Media fetch failure is non-fatal: when the featured image cannot be
\* fetched or decoded (process_image_links gives no path for a non-empty image
\* list), format_post_content still returns a payload, its featured-media id
\* is absent, and the orchestrator goes on to upload_post.
C13_MediaFetchFailureNonFatal ==
  [][(/\ pc = "transform"
      /\ \E k \in 1..Len(log') :
           log'[k].op = "process_image_links" /\ log'[k].res = None)
      => /\ pc' = "publish"
         /\ err' = None
         /\ formatted'.featured_media = None]_vars

\* the calls of the step just taken hold one with this name and result
Called(l, op, res) == \E k \in 1..Len(l) : l[k].op = op /\ l[k].res = res
CalledOp(l, op) == \E k \in 1..Len(l) : l[k].op = op

\* C14 Featured-image absence (as the code has it): when the image list of a
\* post is empty, process_image_links yields the empty path, upload_featured_image
\* is called with it, finds no file, sends no request to the media endpoint and
\* returns no id, and the payload goes on to upload_post with an absent
\* featured-media field.
C14_EmptyImageListNoMediaRequest ==
  /\ [][(pc = "transform" /\ Called(log', "process_image_links", ""))
          => /\ Called(log', "upload_featured_image", None)
             /\ ~CalledOp(log', "requests.post WP_MEDIA_URL")
             /\ pc' = "publish"
             /\ err' = None
             /\ formatted'.featured_media = None]_vars
  /\ [][(pc = "publish" /\ Called(log, "process_image_links", ""))
          => Last(log').op = "upload_post"]_vars

\* C14 as stated: with an empty image list upload_featured_image is never
\* called for the post, and upload_post proceeds without a featured-media id.
C14_UploadFeaturedImageNeverCalled ==
  [][(pc = "transform" /\ Called(log', "process_image_links", ""))
      => /\ ~CalledOp(log', "upload_featured_image")
         /\ pc' = "publish"
         /\ formatted'.featured_media = None]_vars

\* upload_post returned for a post that had no image
C14_Witness ==
  /\ log # << >>
  /\ Last(log).op = "upload_post"
  /\ Called(log, "process_image_links", "")
  /\ Called(log, "upload_featured_image", None)

\* C15 Publisher never raises past its boundary: whatever the remote call
\* does (201, another status, a network error), upload_post returns True or
\* False and upload_featured_image returns an id or None; after a failed
\* remote call the post is left unmarked and the loop goes on to the next
\* post, the run is not ended.
C15_PublisherNeverRaises ==
  /\ [][pc = "publish"
          => /\ Last(log').res \in {"True", "False"}
             /\ Last(log').res = "False"
                  => /\ UNCHANGED <<ledger, seq>>
                     /\ idx' = idx + 1
                     /\ pc' \in {"check", "cleanup"}]_vars
  /\ [][(pc = "transform" /\ CalledOp(log', "requests.post WP_MEDIA_URL"))
          => /\ \/ Called(log', "upload_featured_image", MediaId)
                \/ Called(log', "upload_featured_image", None)
             /\ pc' = "publish"]_vars
  /\ [](err \notin {"RequestException"})

\* C16 Duplicate save is warn-and-continue: save_post for a url the session
\* cache already holds raises nothing, leaves the cache as it was (one row for
\* the url, with the data saved first), and the orchestrator goes on to
\* format_post_content, and to upload_post with the payload that returns.
C16_DuplicateSaveContinues ==
  /\ [][(pc = "cache" /\ \E k \in 1..Len(tempRows) : tempRows[k].url = full_post.url)
          => /\ tempRows' = tempRows
             /\ tempFile' = tempFile
             /\ Last(log') = Ev("save_post", idx, "IntegrityError")
             /\ err' = None
             /\ full_post' = full_post
             /\ idx' = idx
             /\ pc' = "transform"]_vars
  /\ [](\A j, k \in 1..Len(tempRows) : tempRows[j].url = tempRows[k].url => j = k)
  /\ [][(pc = "transform" /\ Called(log, "save_post", "IntegrityError"))
          => CalledOp(log', "format_post_content")]_vars
  /\ [][(pc = "publish" /\ Called(log, "save_post", "IntegrityError"))
          => Last(log').op = "upload_post"]_vars

\* a post whose url was already cached with other content was saved again,
\* transformed and published, and the cache still holds the first content
C16_Witness ==
  /\ pc = "record"
  /\ Called(log, "save_post", "IntegrityError")
  /\ Last(log) = Ev("upload_post", idx, "True")
  /\ Len(tempRows) = 1
  /\ tempRows[1].url = full_post.url
  /\ tempRows[1].content_html # full_post.content_html

\* C17 Session-cache lifetime: the first step of every run removes a temp.db
\* left by an earlier run, so at discovery no cache store exists; after a run
\* has run to its end (run_migration returned) temp.db and its rows are gone;
\* rows exist only in an existing temp.db, and every row the cache holds
\* during the loop is for a post this run's loop has reached, so none comes
\* from an earlier run.
C17_CacheConfinedToRun ==
  /\ [][pc = "init" => ~tempFile' /\ tempRows' = << >> /\ pc' = "discover"]_vars
  /\ [](pc = "discover" => ~tempFile /\ tempRows = << >>)
  /\ [](pc = "done" => ~tempFile /\ tempRows = << >>)
  /\ [](tempRows # << >> => tempFile)
  /\ [](InLoop => \A k \in 1..Len(tempRows) :
                    \E j \in 1..idx : tempRows[k].url = posts[j])

\* a run has just removed a temp.db with rows that an earlier run, ended by
\* an exception, had left, and stands before discovery
C17_Witness ==
  /\ pc = "discover"
  /\ log = <<Ev("os.remove", 0, "temp.db with rows")>>
  /\ ~tempFile
  /\ tempRows = << >>

\* C18 Renderer disposal: every driver scrape_post_content starts is quit
\* before the call returns or raises, whatever the outcome (post returned,
\* locator missing, page load failed): the call leaves no more live drivers
\* than it found.
C18_RendererDisposed ==
  [][pc = "extract" => live' = live]_vars

\* C19 Ledger write failure propagates: whenever the mark_post_as_migrated
\* call of a published post leaves its url out of the ledger, the storage
\* error has left the function and run_migration (the run is over with that
\* error, the loop does not go on), the ledger is as it was, and no
\* iteration stands as recorded (mark_post_as_migrated returned) while the
\* ledger lacks its url.
C19_MarkFailurePropagates ==
  /\ [][(pc = "record" /\ ~is_post_migrated(ledger', Url))
          => /\ Last(log') = Ev("mark_post_as_migrated", idx, "sqlite3.Error")
             /\ err' = "sqlite3.Error"
             /\ pc' = "fatal"
             /\ idx' = idx
             /\ UNCHANGED <<ledger, seq>>]_vars
  /\ [](InLoop \/ pc = "cleanup"
          => \A k \in 1..Len(log) :
               log[k] = Ev("mark_post_as_migrated", log[k].i, None)
                 => is_post_migrated(ledger, posts[log[k].i]))

\* the storage layer failed on the mark of a post upload_post had just
\* published: the run is over and the url is not in the ledger
C19_Witness ==
  /\ pc = "fatal"
  /\ err = "sqlite3.Error"
  /\ Last(log) = Ev("mark_post_as_migrated", idx, "sqlite3.Error")
  /\ Url \in pubOk
  /\ ~is_post_migrated(ledger, Url)

\* the raw date matches "%B %d, %Y": a full month name, a day of that month
\* of that year
MatchesFormat(d) ==
  /\ d.fmt = "%B %d, %Y"
  /\ \E m \in 1..12 :
       /\ IsMonth(m, d.month)
       /\ d.day \in 1..(IF m = 2 THEN (IF IsLeap(d.year) THEN 29 ELSE 28)
                         ELSE IF m \in {4, 6, 9, 11} THEN 30 ELSE 31)

\* C20 Date transform: for every raw date that matches the format and every
\* draw of the three randint calls, format_post_date raises nothing and
\* returns a timestamp whose year, month and day are the input's and whose
\* hour is in 6..23, minute in 0..59 and second in 0..59.
C20_DateTransform ==
  (timestamp # NoTimestamp /\ MatchesFormat(date_str))
    => /\ timestamp.raised = None
       /\ timestamp.Y = date_str.year
       /\ IsMonth(timestamp.m, date_str.month)
       /\ timestamp.d = date_str.day
       /\ timestamp.H \in 6..23
       /\ timestamp.M \in 0..59
       /\ timestamp.S \in 0..59

\* "March 27, 2025" was given the latest time of day the draws allow
C20_Witness ==
  /\ date_str = DateGood
  /\ timestamp = [raised |-> None, Y |-> 2025, m |-> 3, d |-> 27,
                  H |-> 23, M |-> 59, S |-> 59]

\* the calls run_migration makes for one post, in the order of its body,
\* and the calls format_post_content makes inside
LoopCalls == <<"is_post_migrated", "scrape_post_content", "save_post",
               "format_post_content", "upload_post", "mark_post_as_migrated">>
TransformCalls == {"format_post_date", "process_image_links",
                   "requests.post WP_MEDIA_URL", "upload_featured_image"}
OfLoop(l) == SelectSeq(l, LAMBDA e : e.op \in Range(LoopCalls))
\* the call let the iteration go on to its next step
WentOn(e) ==
  \/ e.op = "is_post_migrated" /\ e.res = "False"
  \/ e.op = "scrape_post_content" /\ e.res = "post"
  \/ e.op = "save_post" /\ e.res \in {"saved", "IntegrityError"}
  \/ e.op = "format_post_content" /\ e.res = "payload"
  \/ e.op = "upload_post" /\ e.res = "True"
\* the call ended the iteration: the post is recorded, skipped or has failed
EndsIteration(e) ==
  \/ e.op = "mark_post_as_migrated" /\ e.res = None
  \/ e.op = "is_post_migrated" /\ e.res = "True"
  \/ e.op = "scrape_post_content" /\ e.res = None
  \/ e.op = "upload_post" /\ e.res = "False"

\* C21 Strict per-post sequencing: the calls of an iteration are, in this
\* order, the lookup, scrape_post_content, save_post, format_post_content
\* (with its date, image and media-upload calls after save_post and before
\* upload_post), upload_post and mark_post_as_migrated, all for the same post,
\* each made only after the one before it returned and let the iteration go
\* on; the loop moves by one post at a time and only when the current post
\* is recorded, skipped or has failed.
C21_StrictSequencing ==
  /\ [](InLoop /\ log # << >> /\ log[1].op = "is_post_migrated"
          => LET t == OfLoop(log)
             IN  /\ Len(t) <= Len(LoopCalls)
                 /\ \A k \in 1..Len(t) :
                      /\ t[k].op = LoopCalls[k]
                      /\ k < Len(t) => WentOn(t[k])
                 /\ \A k \in 1..Len(log) : log[k].i = log[1].i)
  /\ [](\A k \in 1..Len(log) :
          log[k].op \in TransformCalls
            => /\ \E j \in 1..(k - 1) : log[j].op = "save_post"
               /\ \A j \in 1..(k - 1) :
                    log[j].op \notin {"format_post_content", "upload_post",
                                      "mark_post_as_migrated"})
  /\ [](pc \in PostSteps => log # << >> /\ log[1].i = idx /\ WentOn(Last(log)))
  /\ [][(InLoop /\ idx' # idx)
          => idx' = idx + 1 /\ EndsIteration(Last(log'))]_vars

\* the first of two posts went through all its steps, media upload included,
\* and the loop stands at the second
C21_Witness ==
  /\ pc = "check"
  /\ idx = 2
  /\ Len(OfLoop(log)) = 6
  /\ CalledOp(log, "requests.post WP_MEDIA_URL")
  /\ Last(log) = Ev("mark_post_as_migrated", 1, None)

\* l is an initial part of m: every row of l is in m, unchanged and in place
IsPrefix(l, m) == Len(l) <= Len(m) /\ SubSeq(m, 1, Len(l)) = l

\* C22 Ledger monotonicity: every step keeps every ledger row as it is and at
\* most appends rows, except the bulk reset, which is taken only between
\* invocations; during a run the ledger holds every url it held when the run
\* began, and the rows written before a renderer failure are there when the
\* restarted run begins (the upgrade and the start of the run leave the
\* ledger alone).
C22_LedgerMonotone ==
  /\ [][\/ IsPrefix(ledger, ledger')
         \/ /\ pc \in {"idle", "done", "fatal"}
            /\ pc' = pc
            /\ ledger' = << >>]_vars
  /\ [][(pc \in {"upgrade", "init", "discover"}) => ledger' = ledger]_vars
  /\ [](pc \notin {"idle", "done", "fatal", "init"}
          => ledgerAtStart \subseteq LedgerUrls(ledger))

\* the run restarted after a renderer failure stands before discovery, and
\* the ledger holds a row the failed run wrote
C22_Witness ==
  /\ inv = 1
  /\ run = 2
  /\ pc = "discover"
  /\ ledger # << >>
  /\ ledgerAtStart = LedgerUrls(ledger)

\* C23 Media upload failure is not fatal to the transform: when the featured
\* image was saved locally and the media endpoint answers with a status other
\* than 201, upload_featured_image returns no id, format_post_content returns
\* a payload with date, title and content and an absent featured_media, and
\* upload_post is called for the post.
C23_MediaUploadFailureNonFatal ==
  /\ [][(pc = "transform" /\ Called(log', "requests.post WP_MEDIA_URL", "500"))
          => /\ Called(log', "process_image_links", "images/featured_media.jpg")
             /\ Called(log', "upload_featured_image", None)
             /\ Last(log') = Ev("format_post_content", idx, "payload")
             /\ err' = None
             /\ pc' = "publish"
             /\ formatted'.date.raised = None
             /\ formatted'.title = full_post.url
             /\ formatted'.content = full_post.content_html
             /\ formatted'.featured_media = None]_vars
  /\ [][(pc = "publish" /\ Called(log, "requests.post WP_MEDIA_URL", "500"))
          => Last(log').op = "upload_post"]_vars

\* upload_post returned for a post whose media upload had been refused
C23_Witness ==
  /\ log # << >>
  /\ Last(log).op = "upload_post"
  /\ Called(log, "requests.post WP_MEDIA_URL", "500")
  /\ Called(log, "upload_featured_image", None)
  /\ Called(log, "format_post_content", "payload")

\* C24 Discovery tolerates malformed cards: whenever the index page loads and
\* its card container is there, scrape_homepage raises nothing and returns,
\* in document order, the links of exactly the cards that have a title and a
\* link, with or without a Show More button on the page.
C24_MalformedCardsSkipped ==
  (discovered # NotScraped /\ home_page.status = "ok" /\ home_page.has_container)
    => /\ discovered.raised = None
       /\ LET kept == SelectSeq(home_page.cards,
                                LAMBDA c : c.title # "" /\ c.link # None)
          IN  /\ Len(discovered.posts) = Len(kept)
              /\ \A k \in 1..Len(kept) : discovered.posts[k] = kept[k].link

\* C25 Only renderer failures trigger recovery: an exception other than a
\* WebDriverException that leaves run_migration ends the invocation with that
\* error, with no upgrade and no further run; the upgrade is entered only
\* with a WebDriverException of the first run; and when the upgrade itself
\* raises, the invocation ends with that error and no second run is started.
C25_OnlyRendererFailuresRecover ==
  /\ [][(pc \notin {"upgrade", "fatal"} /\ err' \notin {None, WebDriverException})
          => /\ pc' = "fatal"
             /\ UNCHANGED <<run, upgrades, inv>>]_vars
  /\ [][pc' = "upgrade"
          => err' = WebDriverException /\ run' = 1 /\ upgrades' = 0]_vars
  /\ [][(pc = "upgrade" /\ err' # None)
          => /\ err' = "UpgradeError"
             /\ pc' = "fatal"
             /\ run' = run]_vars
  /\ [][pc = "fatal" => UNCHANGED <<run, upgrades, err, pc>> \/ inv' = inv + 1]_vars
  /\ [](err \notin {None, WebDriverException} => pc = "fatal")

\* a ValueError of the transform ended the invocation in its first run, with
\* no upgrade
C25_Witness ==
  /\ pc = "fatal"
  /\ err = "ValueError"
  /\ run = 1
  /\ upgrades = 0

\* C26 Termination: when every call returns or raises, an invocation that
\* has started ends, in "done" or with a fatal error; it makes at most two
\* runs, and within a run the loop only moves forward, one post at a time,
\* and never past the end of the discovery result, so each discovered post
\* gets at most one iteration per run.
C26_Termination ==
  /\ [](pc = "init" => <>(pc \in {"done", "fatal"}))
  /\ [](run <= 2 /\ upgrades <= 1)
  /\ [](InLoop => idx \in 1..Len(posts))
  /\ [](pc \in {"cleanup", "done"} /\ posts # << >> => idx = Len(posts) + 1)
  /\ [][InLoop
          => /\ idx' \in {idx, idx + 1}
             /\ posts' = posts]_vars
  /\ [][(pc = "check") => idx' = idx + 1 \/ pc' = "extract"]_vars

\* the second run of an invocation went through its two posts and ended
C26_Witness ==
  /\ pc = "done"
  /\ run = 2
  /\ Len(posts) = 2
  /\ idx = 3

====
